---- MODULE Spec2Model ----
(***************************************************************************)
(* Import-specifier rewriting scripts of the repository:                   *)
(*   fix_imports_final.py        (relative types imports -> alias)         *)
(*   restore_internal_imports.py (common-utils alias -> relative)          *)
(*   fix_sdk_types_imports.py    (relative bare types import -> alias)     *)
(* File contents are sequences of one-character strings.  The regular      *)
(* expressions of the scripts are data (sequences of pattern elements)     *)
(* interpreted by a backtracking matcher with Python's priorities          *)
(* (greedy: longest first, lazy: shortest first), and re.sub is the        *)
(* leftmost, non-overlapping scan.                                         *)
(***************************************************************************)
EXTENDS Integers, Sequences, FiniteSets, TLC

\* ------------------------------------------------------------------------
\* Bounds
\* ------------------------------------------------------------------------
\* deepest chain of "../" segments among the generated import paths
MaxDepth == 7

\* ------------------------------------------------------------------------
\* Text fragments
\* ------------------------------------------------------------------------
KwFrom == <<"f", "r", "o", "m">>
KwFromSp == <<"f", "r", "o", "m", " ">>
KwImport == <<"i", "m", "p", "o", "r", "t">>
UpSeg == <<".", ".", "/">>
CurSeg == <<".", "/">>
TypesSlash == <<"t", "y", "p", "e", "s", "/">>
TypesName == <<"t", "y", "p", "e", "s">>
UtilsAlias == <<"@", "m", "o", "d", "u", "l", "a", "r", "-", "a", "g", "e", "n", "t", "/", "c", "o", "m", "m", "o", "n", "-", "u", "t", "i", "l", "s", "/">>
UtilsHttp == UtilsAlias \o <<"h", "t", "t", "p", "/">>
UtilsLlm == UtilsAlias \o <<"l", "l", "m", "/">>
FromTypesAliasSlash == <<"f", "r", "o", "m", " ", "'", "@", "m", "o", "d", "u", "l", "a", "r", "-", "a", "g", "e", "n", "t", "/", "t", "y", "p", "e", "s", "/">>
FromTypesAlias == <<"f", "r", "o", "m", " ", "'", "@", "m", "o", "d", "u", "l", "a", "r", "-", "a", "g", "e", "n", "t", "/", "t", "y", "p", "e", "s", "'">>
FromCur == <<"f", "r", "o", "m", " ", "'", ".", "/">>
FromUp == <<"f", "r", "o", "m", " ", "'", ".", ".", "/">>
ImportSp == <<"i", "m", "p", "o", "r", "t", " ">>
SQ == <<"'">>

Quotes == {"'", "\""}
Whitespace == {" ", "\t", "\n", "\r", "\f"}
Newline == {"\n"}

\* ------------------------------------------------------------------------
\* Pattern elements (the pieces the scripts' regular expressions are made of)
\* ------------------------------------------------------------------------
\* a literal run of characters
Lit(w) == [kind |-> "lit", w |-> w]
\* a character class [set] or [^set] repeated lo..hi times (hi ignored when
\* unbounded), greedy or lazy, captured as group grp (0: not captured)
Cls(set, neg, lo, hi, unbounded, lazy, grp) ==
    [kind |-> "cls", set |-> set, neg |-> neg, lo |-> lo, hi |-> hi,
     unbounded |-> unbounded, lazy |-> lazy, grp |-> grp]
\* a greedy repetition (alt1|alt2|...){lo,hi} of literal alternatives, the
\* last iteration captured as group grp
Rep(alts, lo, hi, unbounded, grp) ==
    [kind |-> "rep", alts |-> alts, lo |-> lo, hi |-> hi,
     unbounded |-> unbounded, grp |-> grp]

\* \s+
WsPlus == Cls(Whitespace, FALSE, 1, 1, TRUE, FALSE, 0)
\* ['\"]
QuoteCls == Cls(Quotes, FALSE, 1, 1, FALSE, FALSE, 0)
\* ([^'\"]+) as group grp
NonQuotePlus(grp) == Cls(Quotes, TRUE, 1, 1, TRUE, FALSE, grp)
\* .*?   ('.' is any character but a newline)
LazyAny == Cls(Newline, TRUE, 0, 0, TRUE, TRUE, 0)

\* ------------------------------------------------------------------------
\* Matcher
\* ------------------------------------------------------------------------
NoMatch == [ok |-> FALSE, stop |-> 0, g |-> <<<<>>, <<>>>>]

\* the literal w stands at position i of s
LitAt(s, i, w) == /\ i + Len(w) - 1 <= Len(s)
                  /\ s[i] = w[1]
                  /\ SubSeq(s, i, i + Len(w) - 1) = w

\* the character c belongs to the class of element e
InCls(e, c) == IF e.neg THEN c \notin e.set ELSE c \in e.set

\* length of the longest run of class characters at i (at most cap)
RECURSIVE ClsRun(_, _, _, _)
ClsRun(e, s, i, cap) ==
    IF cap = 0 \/ i > Len(s) \/ ~InCls(e, s[i]) THEN 0
    ELSE 1 + ClsRun(e, s, i + 1, cap - 1)

\* position after the first alternative (in listed order) that stands at i,
\* 0 when none does
RECURSIVE AltAt(_, _, _, _)
AltAt(alts, a, s, i) ==
    IF a > Len(alts) THEN 0
    ELSE IF LitAt(s, i, alts[a]) THEN i + Len(alts[a])
    ELSE AltAt(alts, a + 1, s, i)

\* positions after 1, 2, ... iterations of the repetition e from i (at most cap)
RECURSIVE RepEnds(_, _, _, _)
RepEnds(e, s, i, cap) ==
    LET j == AltAt(e.alts, 1, s, i)
    IN  IF cap = 0 \/ j = 0 THEN <<>>
        ELSE <<j>> \o RepEnds(e, s, j, cap - 1)

RECURSIVE MatchSeq(_, _, _, _, _)
RECURSIVE TryCls(_, _, _, _, _, _, _)
RECURSIVE TryRep(_, _, _, _, _, _, _)

\* elements k.. of re match s from position i; g holds the groups so far
MatchSeq(re, k, s, i, g) ==
    IF k > Len(re) THEN [ok |-> TRUE, stop |-> i, g |-> g]
    ELSE LET e == re[k] IN
      CASE e.kind = "lit" ->
             IF LitAt(s, i, e.w) THEN MatchSeq(re, k + 1, s, i + Len(e.w), g)
             ELSE NoMatch
        [] e.kind = "cls" ->
             LET run == ClsRun(e, s, i, IF e.unbounded THEN Len(s) ELSE e.hi)
             IN  IF run < e.lo THEN NoMatch
                 ELSE TryCls(re, k, s, i, g, IF e.lazy THEN e.lo ELSE run, run)
        [] e.kind = "rep" ->
             LET ends == RepEnds(e, s, i, IF e.unbounded THEN Len(s) ELSE e.hi)
             IN  IF Len(ends) < e.lo THEN NoMatch
                 ELSE TryRep(re, k, s, i, g, ends, Len(ends))

\* class element k taking n characters, then the rest; on failure a greedy
\* element gives one character back, a lazy one takes one more (up to run)
TryCls(re, k, s, i, g, n, run) ==
    LET e == re[k]
        g2 == IF e.grp = 0 THEN g ELSE [g EXCEPT ![e.grp] = SubSeq(s, i, i + n - 1)]
        m == MatchSeq(re, k + 1, s, i + n, g2)
    IN  IF m.ok THEN m
        ELSE IF e.lazy THEN (IF n < run THEN TryCls(re, k, s, i, g, n + 1, run) ELSE NoMatch)
        ELSE (IF n > e.lo THEN TryCls(re, k, s, i, g, n - 1, run) ELSE NoMatch)

\* repetition element k taking n iterations, then the rest; on failure one
\* iteration is given back
TryRep(re, k, s, i, g, ends, n) ==
    LET e == re[k]
        from == IF n = 1 THEN i ELSE ends[n - 1]
        g2 == IF e.grp = 0 \/ n = 0 THEN g
              ELSE [g EXCEPT ![e.grp] = SubSeq(s, from, ends[n] - 1)]
        m == MatchSeq(re, k + 1, s, IF n = 0 THEN i ELSE ends[n], g2)
    IN  IF m.ok THEN m
        ELSE IF n > e.lo THEN TryRep(re, k, s, i, g, ends, n - 1) ELSE NoMatch

\* re.match of re at position i of s
MatchAt(re, s, i) == MatchSeq(re, 1, s, i, NoMatch.g)

\* re.search: some position of s starts a match
HasMatch(re, s) == \E i \in 1..Len(s) : MatchAt(re, s, i).ok

\* a replacement template: literal text and group references
T(w) == [grp |-> 0, lit |-> w]
G(n) == [grp |-> n, lit |-> <<>>]

RECURSIVE Expand(_, _, _)
Expand(tmpl, k, g) ==
    IF k > Len(tmpl) THEN <<>>
    ELSE (IF tmpl[k].grp = 0 THEN tmpl[k].lit ELSE g[tmpl[k].grp]) \o Expand(tmpl, k + 1, g)

\* first position >= i of s where re matches, Len(s) + 1 when there is none
RECURSIVE NextMatch(_, _, _)
NextMatch(re, s, i) ==
    IF i > Len(s) THEN i
    ELSE IF MatchAt(re, s, i).ok THEN i
    ELSE NextMatch(re, s, i + 1)

\* re.sub from position i: every leftmost non-overlapping match is replaced,
\* the text between the matches is copied
RECURSIVE SubFrom(_, _, _, _)
SubFrom(re, tmpl, s, i) ==
    LET p == NextMatch(re, s, i)
        m == MatchAt(re, s, p)
    IN  IF p > Len(s) THEN SubSeq(s, i, Len(s))
        ELSE SubSeq(s, i, p - 1) \o Expand(tmpl, 1, m.g) \o SubFrom(re, tmpl, s, m.stop)

re_sub(rule, s) == SubFrom(rule.re, rule.tmpl, s, 1)

\* ------------------------------------------------------------------------
\* The rule sets of the three scripts
\* ------------------------------------------------------------------------
\* the depth limit off by one: (\.\./){1,7}
relative_path_pattern_deeper == Rep(<<UpSeg>>, 1, 7, FALSE, 1)

\* (\.\./){1,6}
relative_path_pattern == Rep(<<UpSeg>>, 1, 6, FALSE, 1)

\* from\s+['\"](\.\./){1,6}types/([^'\"]+)['\"]
from_types_re ==
    <<Lit(KwFrom), WsPlus, QuoteCls, relative_path_pattern, Lit(TypesSlash),
      NonQuotePlus(2), QuoteCls>>

\* patterns of fix_imports_in_directory
fix_patterns ==
    << [re |-> from_types_re,
        tmpl |-> <<T(FromTypesAliasSlash), G(2), T(SQ)>>],
       [re |-> <<Lit(KwImport), WsPlus, LazyAny>> \o from_types_re,
        tmpl |-> <<T(ImportSp), G(1), T(FromTypesAliasSlash), G(2), T(SQ)>>] >>

\* patterns of restore_imports_in_directory
restore_patterns ==
    << [re |-> <<Lit(KwFrom), WsPlus, QuoteCls, Lit(UtilsHttp), NonQuotePlus(1), QuoteCls>>,
        tmpl |-> <<T(FromCur), G(1), T(SQ)>>],
       [re |-> <<Lit(KwFrom), WsPlus, QuoteCls, Lit(UtilsLlm), NonQuotePlus(1), QuoteCls>>,
        tmpl |-> <<T(FromCur), G(1), T(SQ)>>],
       [re |-> <<Lit(KwFrom), WsPlus, QuoteCls, Lit(UtilsAlias), NonQuotePlus(1), QuoteCls>>,
        tmpl |-> <<T(FromUp), G(1), T(SQ)>>] >>

\* replace_import of fix_types_imports: the constant alias import
replace_import == <<T(FromTypesAlias)>>

\* pattern of fix_types_imports:  from ['\"](\.\.?/)+types['\"]
\* (\.\.?/ is "../" or, the optional dot left out, "./")
sdk_patterns ==
    << [re |-> <<Lit(KwFromSp), QuoteCls, Rep(<<UpSeg, CurSeg>>, 1, 1, TRUE, 1),
                 Lit(TypesName), QuoteCls>>,
        tmpl |-> replace_import] >>

Scripts == {"fix_imports_final", "restore_internal_imports", "fix_sdk_types_imports"}

patterns(script) ==
    CASE script = "fix_imports_final" -> fix_patterns
      [] script = "restore_internal_imports" -> restore_patterns
      [] script = "fix_sdk_types_imports" -> sdk_patterns

\* for pattern, replacement in patterns: content = re.sub(...)
RECURSIVE ApplyFrom(_, _, _)
ApplyFrom(rules, k, s) ==
    IF k > Len(rules) THEN s ELSE ApplyFrom(rules, k + 1, re_sub(rules[k], s))

Transform(script, s) == ApplyFrom(patterns(script), 1, s)

\* ------------------------------------------------------------------------
\* File contents the scripts are run on
\* ------------------------------------------------------------------------
ClauseA == <<"i", "m", "p", "o", "r", "t", " ", "{", "A", "}", " ">>
Client == <<"c", "l", "i", "e", "n", "t">>
Shared == <<"s", "h", "a", "r", "e", "d">>

\* a chain of d "../" segments
RECURSIVE UpChain(_)
UpChain(d) == IF d = 0 THEN <<>> ELSE UpSeg \o UpChain(d - 1)

\* [import {A} ]from <q><path><q>, the closing quote present or missing
Stmt(clause, q, path, closed) ==
    clause \o KwFromSp \o <<q>> \o path \o (IF closed THEN <<q>> ELSE <<>>)

Clauses == {<<>>, ClauseA}
Depths == 1..MaxDepth
\* relative imports of a submodule of types, and of types itself
TypesSubPath(d) == UpChain(d) \o TypesSlash \o <<"x">>
TypesRootPath(d) == UpChain(d) \o TypesName
\* relative references inside one package
RelPaths == {CurSeg \o Client, UpSeg \o Shared, CurSeg \o TypesName}
                \cup {TypesSubPath(d) : d \in Depths} \cup {TypesRootPath(d) : d \in Depths}
\* alias references to common-utils
AliasPaths == {UtilsHttp \o Client, UtilsLlm \o <<"x">>, UtilsAlias \o Shared, UtilsHttp}
Paths == RelPaths \cup AliasPaths
Stmts == {Stmt(c, q, p, cl) : c \in Clauses, q \in Quotes, p \in Paths, cl \in BOOLEAN}
\* what may follow the first statement: nothing, or a second import on the
\* same line or on the next one
TailPaths == {UpSeg \o TypesSlash \o <<"y">>, UpSeg \o TypesName, UtilsHttp \o <<"b">>, UtilsAlias \o <<"b">>}
Tails == {<<>>} \cup {<<sep>> \o Stmt(<<>>, "'", p, TRUE) : sep \in {" ", "\n"}, p \in TailPaths}
Contents == {s \o t : s \in Stmts, t \in Tails}

\* ------------------------------------------------------------------------
\* State
\* ------------------------------------------------------------------------
VARIABLES
    script,            \* the script being run
    pc,                \* where the run stands
    disk,              \* file name -> content on disk
    disk0,             \* the content of every file before the run
    todo,              \* files of the directory the walk has not reached yet
    ts_file,           \* the file of the current loop iteration
    content,           \* the text being rewritten
    original_content,  \* the text as it was read
    modified_files,    \* list returned by fix/restore_imports_in_directory
    fixed_count,       \* counter printed by fix_sdk_types_imports.main
    opened,            \* files that were opened for writing
    k,                 \* index of the next pattern of the rule set
    input,             \* the text the first pass started from
    runs               \* the scripts whose pass was started, in order

vars == <<script, pc, disk, disk0, todo, ts_file, content, original_content,
          modified_files, fixed_count, opened, k, input, runs>>

\* ------------------------------------------------------------------------
\* The rule sets applied to one text, pattern by pattern (SpecPipe)
\* ------------------------------------------------------------------------
\* passes over one text
MaxRuns == 2

\* the script that may be run after script s: the same one again, and the
\* restoration after the canonicalization
Follows(s) == IF s = "fix_imports_final" THEN {s, "restore_internal_imports"} ELSE {s}

NoFiles == [f \in {} |-> <<>>]

InitPipe ==
    /\ input \in Contents
    /\ content = input
    /\ original_content = input
    /\ script = "none"
    /\ pc = "ready"
    /\ k = 0
    /\ runs = <<>>
    /\ disk = NoFiles /\ disk0 = NoFiles /\ todo = {} /\ ts_file = <<>>
    /\ modified_files = <<>> /\ fixed_count = 0 /\ opened = {}

\* content = f.read(); original_content = content
Load(s) ==
    /\ pc = "ready"
    /\ Len(runs) < MaxRuns
    /\ IF runs = <<>> THEN TRUE ELSE s \in Follows(runs[Len(runs)])
    /\ script' = s
    /\ original_content' = content
    /\ k' = 1
    /\ runs' = Append(runs, s)
    /\ pc' = "loop"
    /\ UNCHANGED <<content, input, disk, disk0, todo, ts_file, modified_files, fixed_count, opened>>

\* one iteration of: for pattern, replacement in patterns: content = re.sub(...)
ApplyPattern ==
    /\ pc = "loop"
    /\ content' = re_sub(patterns(script)[k], content)
    /\ k' = k + 1
    /\ pc' = IF k = Len(patterns(script)) THEN "ready" ELSE "loop"
    /\ UNCHANGED <<script, original_content, runs, input, disk, disk0, todo, ts_file,
                   modified_files, fixed_count, opened>>

NextPipe == (\E s \in Scripts : Load(s)) \/ ApplyPattern

SpecPipe == InitPipe /\ [][NextPipe]_vars

\* ------------------------------------------------------------------------
\* A run of one script over a directory (Spec)
\* ------------------------------------------------------------------------
\* s ends with the suffix w
EndsWith(s, w) == Len(s) >= Len(w) /\ SubSeq(s, Len(s) - Len(w) + 1, Len(s)) = w

\* the files of the directory tree
Files == {<<"a", ".", "t", "s">>, <<"b", ".", "d", ".", "t", "s">>,
          <<"c", ".", "t", "s">>, <<"n", ".", "m", "d">>}

\* directory.rglob('*.ts')
rglob_ts == {f \in Files : EndsWith(f, <<".", "t", "s">>)}

\* ts_file.name.endswith('.d.ts')
IsDeclaration(f) == EndsWith(f, <<".", "d", ".", "t", "s">>)

\* the declaration-file test at the head of the loop body; the loop of
\* fix_sdk_types_imports.main has none
skips_declarations(s) == s # "fix_sdk_types_imports"

\* where an exception raised in the loop body goes: the try/except of
\* fix/restore_imports_in_directory prints it and the loop goes on;
\* fix_sdk_types_imports has no handler and the exception leaves main
on_exception(s) == IF s = "fix_sdk_types_imports" THEN "raised" ELSE "walk"

\* the comparison dropped: every file read is written back
ChangedAlways(new, old) == TRUE

\* if content != original_content
Changed(new, old) == new # old

\* contents of the files: nothing to rewrite, or an import one of the
\* scripts rewrites
BatchContents ==
    { Stmt(ClauseA, "'", CurSeg \o Client, TRUE),
      Stmt(ClauseA, "'", TypesSubPath(2), TRUE),
      Stmt(<<>>, "'", TypesRootPath(1), TRUE),
      Stmt(ClauseA, "\"", UtilsHttp \o Client, TRUE) }

Init ==
    /\ script \in Scripts
    /\ disk \in [Files -> BatchContents]
    /\ disk[<<"n", ".", "m", "d">>] = Stmt(<<>>, "'", TypesRootPath(1), TRUE)
    /\ disk0 = disk
    /\ todo = rglob_ts
    /\ pc = "walk"
    /\ ts_file = <<>>
    /\ content = <<>> /\ original_content = <<>>
    /\ modified_files = <<>> /\ fixed_count = 0 /\ opened = {}
    /\ k = 0 /\ input = <<>> /\ runs = <<>>

\* for ts_file in directory.rglob('*.ts'): the next file of the walk, in any
\* order; a declaration file is passed over by the scripts that test for it
Walk ==
    /\ pc = "walk"
    /\ \E f \in todo :
          /\ todo' = todo \ {f}
          /\ ts_file' = f
          /\ pc' = IF skips_declarations(script) /\ IsDeclaration(f) THEN "walk" ELSE "read"
    /\ UNCHANGED <<script, disk, disk0, content, original_content, modified_files,
                   fixed_count, opened, k, input, runs>>

\* the file is read and the patterns applied in memory; the file is written
\* back only when the text changed
ReadFile ==
    /\ pc = "read"
    /\ original_content' = disk[ts_file]
    /\ content' = Transform(script, disk[ts_file])
    /\ pc' = IF Changed(content', original_content') THEN "open_w" ELSE "walk"
    /\ UNCHANGED <<script, disk, disk0, todo, ts_file, modified_files, fixed_count,
                   opened, k, input, runs>>

\* open(..., 'r') or open(..., 'w') raises: nothing on disk is touched
OpenFails ==
    /\ pc \in {"read", "open_w"}
    /\ pc' = on_exception(script)
    /\ UNCHANGED <<script, disk, disk0, todo, ts_file, content, original_content,
                   modified_files, fixed_count, opened, k, input, runs>>

\* open(ts_file, 'w') succeeds: the file is truncated
OpenForWrite ==
    /\ pc = "open_w"
    /\ disk' = [disk EXCEPT ![ts_file] = <<>>]
    /\ opened' = opened \cup {ts_file}
    /\ pc' = "write"
    /\ UNCHANGED <<script, disk0, todo, ts_file, content, original_content,
                   modified_files, fixed_count, k, input, runs>>

\* f.write(content) and the close succeed; the file is then recorded:
\* modified_files.append(...), or fix_types_imports returns True and main
\* counts it
WriteFile ==
    /\ pc = "write"
    /\ disk' = [disk EXCEPT ![ts_file] = content]
    /\ IF script = "fix_sdk_types_imports"
       THEN fixed_count' = fixed_count + 1 /\ UNCHANGED modified_files
       ELSE modified_files' = Append(modified_files, ts_file) /\ UNCHANGED fixed_count
    /\ pc' = "walk"
    /\ UNCHANGED <<script, disk0, todo, ts_file, content, original_content,
                   opened, k, input, runs>>

\* f.write(content) or the flush at close raises: nothing, or the first half
\* of the text, has reached the file
WriteFails ==
    /\ pc = "write"
    /\ \E n \in {0, Len(content) \div 2} :
          disk' = [disk EXCEPT ![ts_file] = SubSeq(content, 1, n)]
    /\ pc' = on_exception(script)
    /\ UNCHANGED <<script, disk0, todo, ts_file, content, original_content,
                   modified_files, fixed_count, opened, k, input, runs>>

\* the walk is exhausted: return modified_files / print fixed_count
Finish ==
    /\ pc = "walk"
    /\ todo = {}
    /\ pc' = "done"
    /\ UNCHANGED <<script, disk, disk0, todo, ts_file, content, original_content,
                   modified_files, fixed_count, opened, k, input, runs>>

Next == Walk \/ ReadFile \/ OpenFails \/ OpenForWrite \/ WriteFile \/ WriteFails \/ Finish

Spec == Init /\ [][Next]_vars

\* ------------------------------------------------------------------------
\* Properties of a run (checked under Spec)
\* ------------------------------------------------------------------------
\* some pattern of the script's rule set matches somewhere in the text c
Matched(s, c) == \E r \in 1..Len(patterns(s)) : HasMatch(patterns(s)[r].re, c)

\* the file is in the returned list
Listed(f) == \E n \in 1..Len(modified_files) : modified_files[n] = f

\* the files whose rewritten text was written completely
Rewritten == {f \in opened : /\ disk[f] = Transform(script, disk0[f])
                             /\ disk[f] # disk0[f]}

\* C4: a declaration file is never opened for writing and keeps its content,
\* whatever script runs.
C4_DeclarationsUntouched ==
    \A f \in Files : IsDeclaration(f) => f \notin opened /\ disk[f] = disk0[f]

\* C5: a failing open, read or write never ends the run with the error: the
\* failure is caught at the file and the walk goes on to the final count.
C5_FailureIsolated == pc # "raised"

\* C6: at every moment every file holds its original text or its completely
\* rewritten text.
C6_AtomicWrite ==
    \A f \in Files : disk[f] = disk0[f] \/ disk[f] = Transform(script, disk0[f])

\* C9: a file none of whose imports the rule set matches is never opened
\* for writing, keeps its content and is not listed; a listed file is one
\* whose rewritten text differs from the original and was written
\* completely; no more files are listed or counted than were so rewritten.
C9_NoOp ==
    /\ \A f \in Files :
          /\ ~Matched(script, disk0[f]) =>
                 f \notin opened /\ disk[f] = disk0[f] /\ ~Listed(f)
          /\ Listed(f) => f \in Rewritten
    /\ Len(modified_files) + fixed_count <= Cardinality(Rewritten)

\* a finished run that passed over an unmatched file and rewrote another
C9_Witness ==
    /\ pc = "done"
    /\ \E f \in rglob_ts : ~IsDeclaration(f) /\ ~Matched(script, disk0[f]) /\ disk[f] = disk0[f]
    /\ Len(modified_files) + fixed_count > 0

\* ------------------------------------------------------------------------
\* Properties of the rule sets (checked under SpecPipe)
\* ------------------------------------------------------------------------
\* w occurs somewhere in s
Contains(s, w) == \E p \in 1..Len(s) : LitAt(s, p, w)

\* a pass of script s has run to its end as the n-th pass
PassDone(n, s) == pc = "ready" /\ Len(runs) = n /\ runs[n] = s

BadImport == <<"i", "m", "p", "o", "r", "t", " ", ".", ".", "/", "f", "r", "o", "m">>

\* C1: a second pass of the canonicalization (of fix_imports_final, and of
\* fix_sdk_types_imports) over the output of the first changes nothing.
C1_Idempotence ==
    \A s \in {"fix_imports_final", "fix_sdk_types_imports"} :
        (PassDone(2, s) /\ runs[1] = s) => content = original_content

\* contents whose imports are all relative references inside the package
RelStmts == {Stmt(c, q, p, TRUE) : c \in Clauses, q \in Quotes, p \in RelPaths}
RelTails == {<<>>} \cup {<<sep>> \o Stmt(<<>>, "'", p, TRUE) : sep \in {" ", "\n"},
                             p \in {UpSeg \o TypesSlash \o <<"y">>, UpSeg \o TypesName}}
RelContents == {s \o t : s \in RelStmts, t \in RelTails}

\* C2: canonicalization followed by restoration gives back a content whose
\* imports are only relative same-package references.
C2_RoundTrip ==
    (PassDone(2, "restore_internal_imports") /\ runs[1] = "fix_imports_final"
        /\ input \in RelContents) => content = input

ScopedPath(r) ==
    \/ Len(r) > Len(<<"h", "t", "t", "p", "/">>) /\ LitAt(r, 1, <<"h", "t", "t", "p", "/">>)
    \/ Len(r) > Len(<<"l", "l", "m", "/">>) /\ LitAt(r, 1, <<"l", "l", "m", "/">>)

\* what the claim says an import of common-utils/<r> ends as
RestoredAs(r) ==
    IF ScopedPath(r)
    THEN FromCur \o SubSeq(r, IF r[1] = "h" THEN 6 ELSE 5, Len(r)) \o SQ
    ELSE FromUp \o r \o SQ

\* C7: after the three restoration rules, every import of
\* common-utils/http/<rest> or /llm/<rest> has become './<rest>' and none has
\* become '../http/<rest>' or '../llm/<rest>', every other import of
\* common-utils/<rest> has become '../<rest>', and rule 3 finds no http/ or
\* llm/ path left after rules 1 and 2.
C7_RestoreOrder ==
    /\ PassDone(1, "restore_internal_imports") =>
          /\ \A i \in 1..Len(input) :
                LET m == MatchAt(restore_patterns[3].re, input, i)
                IN  m.ok => Contains(content, RestoredAs(m.g[1]))
          /\ \A w \in {<<"h", "t", "t", "p", "/">>, <<"l", "l", "m", "/">>} :
                \A p \in 1..Len(content) :
                    LitAt(content, p, FromUp \o w) =>
                        /\ p + Len(FromUp \o w) <= Len(content)
                        /\ content[p + Len(FromUp \o w)] \in Quotes
    /\ (pc = "loop" /\ Len(runs) = 1 /\ script = "restore_internal_imports" /\ k = 3) =>
          \A i \in 1..Len(content) :
                LET m == MatchAt(restore_patterns[3].re, content, i)
                IN  m.ok => ~ScopedPath(m.g[1])

\* C8: after both rules of fix_imports_final, every statement
\* import <clause> from '<1-6 ../>types/<sub>' of the input reads
\* import <clause> from '@modular-agent/types/<sub>', the clause untouched.
C8_ClausePreserved ==
    PassDone(1, "fix_imports_final") =>
        \A i \in 1..Len(input) :
            LET m == MatchAt(fix_patterns[2].re, input, i)
                j == NextMatch(from_types_re, input, i)
            IN  m.ok => Contains(content, SubSeq(input, i, j - 1) \o FromTypesAliasSlash
                                              \o m.g[2] \o SQ)

\* C10: once rule 1 of fix_imports_final has made its pass, rule 2 matches
\* nowhere, and a finished pass never puts "import ../from" into a text that
\* did not have it.
C10_Rule2NeverMatches ==
    /\ (pc = "loop" /\ script = "fix_imports_final" /\ k = 2)
          => ~HasMatch(fix_patterns[2].re, content)
    /\ \A n \in 1..MaxRuns : PassDone(n, "fix_imports_final")
          => (Contains(content, BadImport) => Contains(original_content, BadImport))

====
